---- MODULE Spec2Model ----
(***************************************************************************)
(* Model of server.js of PCAP-File-Analyzer: the upload route              *)
(* (POST /api/upload), its pcap-parser event handlers ("packet", "end",   *)
(* "error"), the deferred delete of the stored bytes, the report routes    *)
(* (/api/reports), and the MongoDB connection the routes consult.          *)
(*                                                                         *)
(* Spec: one upload.  SpecPair: two uploads under way together.            *)
(* SpecReports: clients of the report routes.                              *)
(*                                                                         *)
(* A Buffer is a sequence of bytes, indexed from offset 0 by ByteAt.       *)
(* A JavaScript object used as a map ({}), whose Object.entries order is   *)
(* insertion order, is a sequence of entries.  Template literals are       *)
(* rendered to strings as JavaScript renders them.                         *)
(***************************************************************************)
EXTENDS Integers, Sequences, FiniteSets, TLC

VARIABLES
    mongo,             \* the mongoose.connect promise: "connecting", "connected", "failed"
    isMongoConnected,  \* server.js:31
    gfs,               \* server.js:33, Null or "bucket"
    Feedback,          \* server.js:34, Null or "model"
    Report,            \* server.js:35, Null or "model"
    gridfsFiles,       \* the ids of the blobs the GridFS bucket "uploads" holds
    disk,              \* the paths that exist in the uploads directory
    upload,            \* per request of POST /api/upload: its closure and its parser
    crashed,           \* an exception left an event handler uncaught: the process is gone
    reportStore,       \* the reports collection, the reports directory, and the clock
    reportLog          \* history: the answers the report routes have given

vars == <<mongo, isMongoConnected, gfs, Feedback, Report, gridfsFiles, disk, upload, crashed,
          reportStore, reportLog>>

--------------------------------------------------------------------------
(* JavaScript values *)

Null == "null"

\* The value of an out-of-range Buffer index (packet.data[i] with i >= length).
Undefined == 0 - 1

\* The outcome of a Buffer read that throws ERR_OUT_OF_RANGE.
RangeError == 0 - 2

\* `${v}` for a byte or undefined.
Str(v) == IF v = Undefined THEN "undefined" ELSE ToString(v)

\* packet.data[offset]
ByteAt(data, offset) == IF offset < Len(data) THEN data[offset + 1] ELSE Undefined

\* Mutant: (data[offset] << 8) | data[offset + 1], which reads undefined as 0
\* and never throws.
ReadUInt16BE_Unchecked(data, offset) ==
    (IF ByteAt(data, offset) = Undefined THEN 0 ELSE ByteAt(data, offset)) * 256
        + (IF ByteAt(data, offset + 1) = Undefined THEN 0 ELSE ByteAt(data, offset + 1))

\* packet.data.readUInt16BE(offset)
ReadUInt16BE(data, offset) ==
    IF offset + 2 > Len(data)
        THEN RangeError
        ELSE data[offset + 1] * 256 + data[offset + 2]

--------------------------------------------------------------------------
(* The "packet" handler's decoding, server.js:154-180 *)

\* `${packet.data[o]}.${packet.data[o+1]}.${packet.data[o+2]}.${packet.data[o+3]}`
IpString(data, o) ==
    Str(ByteAt(data, o)) \o "." \o Str(ByteAt(data, o + 1)) \o "."
        \o Str(ByteAt(data, o + 2)) \o "." \o Str(ByteAt(data, o + 3))

ProtoName(protocol) ==
    IF protocol = 6 THEN "TCP"
    ELSE IF protocol = 17 THEN "UDP"
    ELSE IF protocol = 1 THEN "ICMP"
    ELSE "Unknown (" \o Str(protocol) \o ")"

\* packet.data.length || packet.header?.orig_len || 0
PacketLength(packet) ==
    IF Len(packet.data) # 0 THEN Len(packet.data)
    ELSE IF packet.orig_len # Undefined /\ packet.orig_len # 0 THEN packet.orig_len
    ELSE 0

IsIPv4(ethertype) == ethertype = 2048

\* The object pushed on packetDetails for an IPv4 frame.
PacketDetail(packet) ==
    [srcIP      |-> IpString(packet.data, 26),
     dstIP      |-> IpString(packet.data, 30),
     protocol   |-> ProtoName(ByteAt(packet.data, 23)),
     packetSize |-> PacketLength(packet)]

\* `${srcIP}->${dstIP}`
\* Mutant: one key for the two directions of a pair of addresses.
ConnectionKey_Undirected(srcIP, dstIP) ==
    LET first  == CHOOSE a \in {srcIP, dstIP} : TRUE
        second == CHOOSE b \in {srcIP, dstIP} : srcIP # dstIP => b # first
    IN  first \o "->" \o second

ConnectionKey(srcIP, dstIP) == srcIP \o "->" \o dstIP

\* Mutant: connectionCounts[connectionKey] = connectionCounts[connectionKey] || 1
Increment_StaysAtOne(connectionCounts, connectionKey) ==
    IF \E i \in 1..Len(connectionCounts) : connectionCounts[i].key = connectionKey
        THEN connectionCounts
        ELSE Append(connectionCounts, [key |-> connectionKey, count |-> 1])

\* connectionCounts[connectionKey] = (connectionCounts[connectionKey] || 0) + 1
Increment(connectionCounts, connectionKey) ==
    IF \E i \in 1..Len(connectionCounts) : connectionCounts[i].key = connectionKey
        THEN [i \in 1..Len(connectionCounts) |->
                IF connectionCounts[i].key = connectionKey
                    THEN [connectionCounts[i] EXCEPT !.count = @ + 1]
                    ELSE connectionCounts[i]]
        ELSE Append(connectionCounts, [key |-> connectionKey, count |-> 1])

\* Mutant: totalPackets++ moved into the IPv4 branch.
ProcessPacket_CountsDecodedOnly(st, packet) ==
    LET ethertype == ReadUInt16BE(packet.data, 12)
    IN  IF ethertype = RangeError THEN st
        ELSE IF IsIPv4(ethertype) THEN
            LET detail == PacketDetail(packet)
            IN  [st EXCEPT
                    !.totalPackets = @ + 1,
                    !.packetDetails = Append(@, detail),
                    !.connectionCounts =
                        Increment(@, ConnectionKey(detail.srcIP, detail.dstIP))]
        ELSE st

\* Mutant: protoName is declared outside the handler and the final else is
\* missing, so an unnamed protocol keeps the name of the packet before it.
ProcessPacket_StaleProtoName(st, packet) ==
    LET counted   == [st EXCEPT !.totalPackets = @ + 1]
        ethertype == ReadUInt16BE(packet.data, 12)
    IN  IF ethertype = RangeError THEN counted
        ELSE IF IsIPv4(ethertype) THEN
            LET fresh  == PacketDetail(packet)
                named  == ByteAt(packet.data, 23) \in {1, 6, 17}
                detail == IF named \/ st.packetDetails = <<>> THEN fresh
                          ELSE [fresh EXCEPT !.protocol =
                                    st.packetDetails[Len(st.packetDetails)].protocol]
            IN  [counted EXCEPT
                    !.packetDetails = Append(@, detail),
                    !.connectionCounts =
                        Increment(@, ConnectionKey(detail.srcIP, detail.dstIP))]
        ELSE counted

\* Mutant: the connection tracking is outside the IPv4 branch.
ProcessPacket_TracksEveryFrame(st, packet) ==
    LET counted   == [st EXCEPT !.totalPackets = @ + 1]
        ethertype == ReadUInt16BE(packet.data, 12)
        detail    == PacketDetail(packet)
        tracked   == [counted EXCEPT !.connectionCounts =
                        Increment(@, ConnectionKey(detail.srcIP, detail.dstIP))]
    IN  IF ethertype = RangeError THEN counted
        ELSE IF IsIPv4(ethertype)
            THEN [tracked EXCEPT !.packetDetails = Append(@, detail)]
        ELSE tracked

\* Mutant: packetDetails.unshift instead of packetDetails.push.
ProcessPacket_Unshift(st, packet) ==
    LET counted   == [st EXCEPT !.totalPackets = @ + 1]
        ethertype == ReadUInt16BE(packet.data, 12)
    IN  IF ethertype = RangeError THEN counted
        ELSE IF IsIPv4(ethertype) THEN
            LET detail == PacketDetail(packet)
            IN  [counted EXCEPT
                    !.packetDetails = <<detail>> \o @,
                    !.connectionCounts =
                        Increment(@, ConnectionKey(detail.srcIP, detail.dstIP))]
        ELSE counted

\* The body of parser.on("packet"), on the closure st of one request.
\* A throw inside the try block is caught and logged; the next packet follows.
ProcessPacket(st, packet) ==
    LET counted   == [st EXCEPT !.totalPackets = @ + 1]
        ethertype == ReadUInt16BE(packet.data, 12)
    IN  IF ethertype = RangeError THEN counted
        ELSE IF IsIPv4(ethertype) THEN
            LET detail == PacketDetail(packet)
            IN  [counted EXCEPT
                    !.packetDetails = Append(@, detail),
                    !.connectionCounts =
                        Increment(@, ConnectionKey(detail.srcIP, detail.dstIP))]
        ELSE counted

--------------------------------------------------------------------------
(* The "end" handler's threat detection, server.js:189-214 *)

DDoSThreshold == 100

PortScanThreshold == 20

\* Mutant: count >= 100.
IsDDoS_AtLeast(count) == count >= DDoSThreshold

IsDDoS(count) == count > DDoSThreshold

\* Mutant: dstIPs.size >= 20.
IsPortScan_AtLeast(size) == size >= PortScanThreshold

IsPortScan(size) == size > PortScanThreshold

DDoSThreat(entry) ==
    [type        |-> "Potential DDoS",
     description |-> "High traffic detected on connection " \o entry.key
                        \o " with " \o ToString(entry.count) \o " packets."]

PortScanThreat(entry) ==
    [type        |-> "Potential Port Scan",
     description |-> "Source IP " \o entry.key \o " connected to "
                        \o ToString(Cardinality(entry.dstIPs)) \o " unique destinations."]

\* for (const [connection, count] of Object.entries(connectionCounts)) ...
DDoSThreats(connectionCounts) ==
    LET hot == SelectSeq(connectionCounts, LAMBDA e : IsDDoS(e.count))
    IN  [i \in 1..Len(hot) |-> DDoSThreat(hot[i])]

\* const portScanSources = {}; packetDetails.forEach(...): after the loop
\* the keys are the sources in order of first appearance, each with the set
\* of the destinations of its packets.
PortScanSources(packetDetails) ==
    LET n     == Len(packetDetails)
        first == SelectSeq([i \in 1..n |-> i],
                           LAMBDA i : \A j \in 1..(i - 1) :
                                packetDetails[j].srcIP # packetDetails[i].srcIP)
    IN  [k \in 1..Len(first) |->
            [key    |-> packetDetails[first[k]].srcIP,
             dstIPs |-> {packetDetails[j].dstIP :
                            j \in {m \in 1..n :
                                    packetDetails[m].srcIP = packetDetails[first[k]].srcIP}}]]

\* for (const [srcIP, dstIPs] of Object.entries(portScanSources)) ...
PortScanThreats(packetDetails) ==
    LET wide == SelectSeq(PortScanSources(packetDetails),
                          LAMBDA e : IsPortScan(Cardinality(e.dstIPs)))
    IN  [i \in 1..Len(wide) |-> PortScanThreat(wide[i])]

\* threats after both loops: every push appends to the request's threats array.
DetectThreats(st) ==
    st.threats \o DDoSThreats(st.connectionCounts) \o PortScanThreats(st.packetDetails)

\* const analysisResult = {...}; the timestamp is the time of the "end" event.
AnalysisResult(st, threats) ==
    [totalPackets  |-> st.totalPackets,
     packetDetails |-> st.packetDetails,
     threats       |-> threats,
     timestamp     |-> "toISOString"]

--------------------------------------------------------------------------
(* The route handler and its event handlers, on a context                  *)
(*   [st: the request's closure, disk, blobs: the GridFS bucket, crashed]  *)

\* multer's filename(): Date.now() + '-' + file.originalname, under uploadsDir
FilePath(req) == ToString(req.now) \o "-" \o req.originalname

\* uploadStream.id, the ObjectId the driver creates for the request's blob
ObjectId(st) == "oid" \o ToString(st.id)

HeadersSent(st) == st.sent # <<>>

\* res.status(status).json(body), with the headers not yet sent
Respond(st, status, body) ==
    [st EXCEPT !.sent = Append(@, [status |-> status, body |-> body]),
               !.attempts = @ + 1]

\* The closure of a request before its handler runs.
NewUpload(req, id) ==
    [id               |-> id,
     req              |-> req,
     pc               |-> "arriving",  \* "arriving", "listening" or "returned"
     fileId           |-> Null,
     totalPackets     |-> 0,
     packetDetails    |-> <<>>,
     threats          |-> <<>>,
     connectionCounts |-> <<>>,
     store            |-> "none",      \* history: the GridFS block "skipped", "stored", "threw"
     parser           |-> "none",      \* "none", "open", "failing", "failed", "ended"
     errored          |-> FALSE,       \* the capture reader has emitted "error"
     pos              |-> 0,           \* frames the capture reader has delivered
     sent             |-> <<>>,        \* the responses written to the client
     timer            |-> "none",      \* "none", "pending" or "fired"
     classified       |-> <<>>,        \* history: the runs of the threat detection
     attempts         |-> 0,           \* history: the calls of res.json
     produced         |-> <<>>]        \* history: per frame delivered, the entries pushed

\* Mutant: the GridFS block has no try/catch of its own, so its throw
\* reaches the handler's outer catch.
UploadHandler_StoreThrowEscapes(ctx, connected, storeThrows, parseThrows) ==
    LET st == ctx.st
    IN  IF ~st.req.hasFile
        THEN [ctx EXCEPT !.st = Respond([st EXCEPT !.pc = "returned"], 400,
                                        [error |-> "No file uploaded"])]
        ELSE IF connected /\ storeThrows
        THEN [ctx EXCEPT !.st = Respond([st EXCEPT !.pc = "returned", !.store = "threw"],
                                        500, [error |-> "error.message"])]
        ELSE
            LET s1     == [st EXCEPT
                            !.fileId = IF connected THEN ObjectId(st) ELSE Null,
                            !.store = IF connected THEN "stored" ELSE "skipped"]
                blobs1 == IF connected THEN ctx.blobs \cup {ObjectId(st)} ELSE ctx.blobs
            IN  IF parseThrows
                THEN [ctx EXCEPT
                        !.st = Respond([s1 EXCEPT !.pc = "returned"], 500,
                                       [error |-> "An error occurred during file processing."]),
                        !.blobs = blobs1,
                        !.disk = @ \ {FilePath(st.req)}]
                ELSE [ctx EXCEPT
                        !.st = [s1 EXCEPT !.pc = "listening", !.parser = "open"],
                        !.blobs = blobs1]

\* The synchronous part of app.post('/api/upload'): connected is
\* isMongoConnected && gfs; storeThrows: the GridFS block throws;
\* parseThrows: pcapParser.parse(fs.createReadStream(filePath)) throws.
UploadHandler(ctx, connected, storeThrows, parseThrows) ==
    LET st == ctx.st
    IN  IF ~st.req.hasFile
        THEN [ctx EXCEPT !.st = Respond([st EXCEPT !.pc = "returned"], 400,
                                        [error |-> "No file uploaded"])]
        ELSE
            LET stored == connected /\ ~storeThrows
                s1     == [st EXCEPT
                            !.fileId = IF stored THEN ObjectId(st) ELSE Null,
                            !.store = IF ~connected THEN "skipped"
                                      ELSE IF storeThrows THEN "threw" ELSE "stored"]
                blobs1 == IF stored THEN ctx.blobs \cup {ObjectId(st)} ELSE ctx.blobs
            IN  IF parseThrows
                THEN [ctx EXCEPT
                        !.st = Respond([s1 EXCEPT !.pc = "returned"], 500,
                                       [error |-> "An error occurred during file processing."]),
                        !.blobs = blobs1,
                        !.disk = @ \ {FilePath(st.req)}]
                ELSE [ctx EXCEPT
                        !.st = [s1 EXCEPT !.pc = "listening", !.parser = "open"],
                        !.blobs = blobs1]

\* parser.on("packet", ...)
OnPacket(ctx, packet) == [ctx EXCEPT !.st = ProcessPacket(@, packet)]

\* parser.on("end", ...): the threat detection, the result, the timer, the
\* response.  res.json throws once the headers are sent; nothing catches a
\* throw out of an event handler.
OnEnd(ctx) ==
    LET st      == ctx.st
        threats == DetectThreats(st)
        s1      == [st EXCEPT
                        !.threats = threats,
                        !.classified = Append(@, [pos |-> st.pos,
                                                  afterError |-> st.errored]),
                        !.timer = "pending"]
    IN  IF HeadersSent(st)
        THEN [ctx EXCEPT !.st = [s1 EXCEPT !.attempts = @ + 1], !.crashed = TRUE]
        ELSE [ctx EXCEPT !.st = Respond(s1, 200, AnalysisResult(st, threats))]

\* Mutant: the "error" handler logs and removes the file, and sends nothing.
OnError_LogsOnly(ctx) == [ctx EXCEPT !.disk = @ \ {FilePath(ctx.st.req)}]

\* parser.on("error", ...)
OnError(ctx) ==
    IF HeadersSent(ctx.st)
    THEN [ctx EXCEPT !.st.attempts = @ + 1, !.crashed = TRUE]
    ELSE [ctx EXCEPT
            !.st = Respond(@, 500, [error |-> "Failed to parse PCAP file."]),
            !.disk = @ \ {FilePath(ctx.st.req)}]

\* The setTimeout callback, 5 minutes after the "end" handler.
DeferredDelete(ctx, connected) ==
    [ctx EXCEPT
        !.st.timer = "fired",
        !.blobs = IF connected /\ ctx.st.fileId # Null THEN @ \ {ctx.st.fileId} ELSE @,
        !.disk = @ \ {FilePath(ctx.st.req)}]

--------------------------------------------------------------------------
(* Captures *)

Reqs == {1, 2}

\* Small captures hold at most MaxFrames frames.
MaxFrames == 3

\* Long captures reach from Margin below a threshold to Margin above it.
Margin == 1

Addr(k) == <<10, 0, 0, k>>

\* A frame of len bytes: ethertype at offset 12, protocol at 23, source at
\* 26..29, destination at 30..33, cut where the frame ends.
FrameData(len, ethertype, protocol, src, dst) ==
    [i \in 1..len |->
        LET o == i - 1
        IN  IF o = 12 THEN ethertype \div 256
            ELSE IF o = 13 THEN ethertype % 256
            ELSE IF o = 23 THEN protocol
            ELSE IF o \in 26..29 THEN src[o - 25]
            ELSE IF o \in 30..33 THEN dst[o - 29]
            ELSE 0]

\* pcap-parser's packet: its header names no orig_len.
Frame(len, ethertype, protocol, src, dst) ==
    [data |-> FrameData(len, ethertype, protocol, src, dst), orig_len |-> Undefined]

IPv4Frame(protocol, src, dst) == Frame(34, 2048, protocol, src, dst)

FrameKinds ==
    { Frame(13, 2048, 6, Addr(1), Addr(2)),     \* too short for the ethertype
      Frame(42, 2054, 0, Addr(1), Addr(2)),     \* ARP
      IPv4Frame(6, Addr(1), Addr(2)),           \* TCP  A -> B
      Frame(60, 2048, 17, Addr(2), Addr(1)),    \* UDP  B -> A
      IPv4Frame(1, Addr(1), Addr(2)),           \* ICMP A -> B
      IPv4Frame(47, Addr(2), Addr(1)),          \* GRE  B -> A
      Frame(14, 2048, 6, Addr(1), Addr(2)),     \* IPv4 ethertype and nothing after it
      Frame(30, 2048, 6, Addr(1), Addr(2)) }    \* IPv4 cut before the destination

SmallCaptures == UNION {[1..n -> FrameKinds] : n \in 0..MaxFrames}

Repeat(frame, n) == [i \in 1..n |-> frame]

\* n frames of one connection A -> B
BurstCaptures ==
    {Repeat(IPv4Frame(6, Addr(1), Addr(2)), n) :
        n \in (DDoSThreshold - Margin)..(DDoSThreshold + Margin)}

\* one frame from A to each of n destinations
Sweep(n) == [i \in 1..n |-> IPv4Frame(6, Addr(1), Addr(10 + i))]

SweepCaptures ==
    LET sizes == ((PortScanThreshold - Margin)..(PortScanThreshold + Margin))
                    \cup {PortScanThreshold + 5}
    IN  {Sweep(n) : n \in sizes}
        \cup {Sweep(n) \o <<IPv4Frame(17, Addr(1), Addr(11))>> : n \in sizes}
        \cup {Sweep(n) \o <<Frame(30, 2048, 6, Addr(1), Addr(2))>> : n \in sizes}

\* a flood and a sweep in one capture
MixedCaptures ==
    {Repeat(IPv4Frame(6, Addr(1), Addr(2)), DDoSThreshold + 1) \o Sweep(PortScanThreshold + 1)}

\* a frame of every length below the 14 bytes the ethertype read needs, then a TCP frame
RuntCaptures ==
    {<<Frame(n, 2048, 6, Addr(1), Addr(2)), IPv4Frame(6, Addr(1), Addr(2))>> : n \in 0..13}

\* traffic in both directions between A and B: c1 frames A->B then c2
\* frames B->A, and the two directions alternating
TwoWayCaptures ==
    {Repeat(IPv4Frame(6, Addr(1), Addr(2)), c1) \o Repeat(IPv4Frame(6, Addr(2), Addr(1)), c2) :
        c1 \in (DDoSThreshold - Margin)..(DDoSThreshold + Margin), c2 \in {1, DDoSThreshold}}
    \cup {[i \in 1..(DDoSThreshold + 2) |->
                IF i % 2 = 1 THEN IPv4Frame(6, Addr(1), Addr(2))
                             ELSE IPv4Frame(6, Addr(2), Addr(1))]}

Captures ==
    SmallCaptures \cup BurstCaptures \cup SweepCaptures \cup MixedCaptures \cup RuntCaptures
        \cup TwoWayCaptures

FileRequest(capture) ==
    [arrives |-> TRUE, hasFile |-> TRUE, originalname |-> "a.pcap", now |-> 1,
     capture |-> capture]

NoFileRequest ==
    [arrives |-> TRUE, hasFile |-> FALSE, originalname |-> "", now |-> 1, capture |-> <<>>]

NoRequest ==
    [arrives |-> FALSE, hasFile |-> FALSE, originalname |-> "", now |-> 1, capture |-> <<>>]

Requests == {NoFileRequest} \cup {FileRequest(c) : c \in Captures}

\* The captures of two uploads under way together.  The long one stays at a
\* threshold: a connection with exactly 100 packets, a source with exactly
\* 20 destinations.
LongCaptures ==
    {Repeat(IPv4Frame(6, Addr(1), Addr(2)), DDoSThreshold), Sweep(PortScanThreshold)}

\* The short one would cross that threshold if the two were counted
\* together: one more packet on the connection, one more destination.
ShortCaptures ==
    {<<IPv4Frame(6, Addr(1), Addr(2))>>,
     <<Frame(13, 2048, 6, Addr(1), Addr(2)), IPv4Frame(6, Addr(1), Addr(99))>>}

--------------------------------------------------------------------------
(* The report routes *)

\* The reportType values the schema accepts
ReportTypes == {"PDF", "JSON", "CSV"}

\* userId || 'anonymous'; a field the body lacks is ""
UserOf(userId) == IF userId = "" THEN "anonymous" ELSE userId

\* how many POST /api/reports requests arrive
MaxSaves == 2

\* 'local_' + Date.now()
LocalId(now) == "local_" \o ToString(now)

\* the string of the n-th ObjectId the driver generates
ReportObjectId(n) == "oid" \o ToString(n)

IsObjectId(reportId) == \E n \in 1..MaxSaves + 1 : reportId = ReportObjectId(n)

\* The document of a report, as the collection and as a local file hold it;
\* createdAt is the instant in milliseconds (a Date in the collection, its
\* ISO string, read back with new Date, in the file).
ReportDoc(reportId, body, now) ==
    [_id        |-> reportId,
     userId     |-> UserOf(body.userId),
     reportName |-> body.reportName,
     reportType |-> body.reportType,
     data       |-> body.data,
     createdAt  |-> now]

\* No report saved, the clock at 1.
NoReports == [collection |-> <<>>, files |-> {}, now |-> 1, oids |-> 0]

Answer(status, body) == [status |-> status, body |-> body]

\* docs in descending createdAt; docs of one createdAt keep their order.
NewestFirst(docs) ==
    LET n == Len(docs)
        Before(a, b) == \/ docs[a].createdAt > docs[b].createdAt
                        \/ docs[a].createdAt = docs[b].createdAt /\ a < b
        order == CHOOSE p \in [1..n -> 1..n] :
                    \A i, j \in 1..n : i < j => Before(p[i], p[j])
    IN  [i \in 1..n |-> docs[order[i]]]

\* fs.readdirSync of the reports directory, each file parsed: the files in
\* the order of their names local_<now>.json.
ReadReportsDir(files) ==
    LET n == Cardinality(files)
    IN  CHOOSE s \in [1..n -> files] :
            \A i, j \in 1..n : i < j => s[i].createdAt < s[j].createdAt

\* POST /api/reports.  saveThrows: report.save() rejects (the database does
\* not answer); it also rejects with a ValidationError for a reportType
\* outside the enum.
SaveReport(store, body, connected, saveThrows) ==
    IF body.reportName = "" \/ body.reportType = "" \/ body.data = ""
    THEN [store  |-> store,
          answer |-> Answer(400, [error |-> "Report name, type, and data are required"])]
    ELSE IF connected
    THEN IF saveThrows \/ body.reportType \notin ReportTypes
         THEN [store  |-> store,
               answer |-> Answer(201, [message  |-> "Report saved successfully",
                                        reportId |-> LocalId(store.now)])]
         ELSE LET reportId == ReportObjectId(store.oids + 1)
              IN  [store  |-> [store EXCEPT
                                !.oids = @ + 1,
                                !.collection = Append(@, ReportDoc(reportId, body, store.now))],
                   answer |-> Answer(201, [message  |-> "Report saved successfully",
                                            reportId |-> reportId])]
    ELSE LET reportId == LocalId(store.now)
         IN  [store  |-> [store EXCEPT
                            !.files = {f \in @ : f._id # reportId}
                                        \cup {ReportDoc(reportId, body, store.now)}],
              answer |-> Answer(201, [message  |-> "Report saved successfully",
                                       reportId |-> reportId])]

\* GET /api/reports/:userId.  findThrows: Report.find rejects.
ListReports(store, userId, connected, findThrows) ==
    LET found == IF connected /\ ~findThrows
                    THEN NewestFirst(SelectSeq(store.collection,
                                               LAMBDA d : d.userId = userId))
                    ELSE <<>>
        local == SelectSeq(ReadReportsDir(store.files), LAMBDA d : d.userId = userId)
    IN  [store  |-> store,
         answer |-> Answer(200, IF found = <<>> THEN NewestFirst(local) ELSE found)]

\* Report.findById: null when no document has the id; a CastError for an
\* id that is not an ObjectId string, which the route catches like any
\* other rejection.
FindById(store, reportId, connected, findThrows) ==
    IF connected /\ ~findThrows /\ IsObjectId(reportId)
        THEN SelectSeq(store.collection, LAMBDA d : d._id = reportId)
        ELSE <<>>

\* GET /api/reports/view/:reportId
ViewReport(store, reportId, connected, findThrows) ==
    LET found == FindById(store, reportId, connected, findThrows)
        local == {f \in store.files : f._id = reportId}
    IN  [store  |-> store,
         answer |-> IF found # <<>> THEN Answer(200, found[1])
                    ELSE IF local # {} THEN Answer(200, CHOOSE f \in local : TRUE)
                    ELSE Answer(404, [error |-> "Report not found"])]

\* DELETE /api/reports/:reportId
DeleteReport(store, reportId, connected, deleteThrows) ==
    LET found == FindById(store, reportId, connected, deleteThrows)
        local == {f \in store.files : f._id = reportId}
    IN  IF found # <<>>
        THEN [store  |-> [store EXCEPT
                            !.collection = SelectSeq(@, LAMBDA d : d._id # reportId)],
              answer |-> Answer(200, [message |-> "Report deleted successfully"])]
        ELSE IF local # {}
        THEN [store  |-> [store EXCEPT !.files = @ \ local],
              answer |-> Answer(200, [message |-> "Report deleted successfully"])]
        ELSE [store  |-> store, answer |-> Answer(404, [error |-> "Report not found"])]

\* The bodies of POST /api/reports: with and without userId, a reportType
\* inside and outside the enum, and a body without reportName.
ReportBodies(data) ==
    {[userId |-> u, reportName |-> "weekly", reportType |-> t, data |-> data] :
        u \in {"u1", ""}, t \in {"PDF", "XML"}}
    \cup {[userId |-> "u1", reportName |-> "", reportType |-> "PDF", data |-> data]}

\* The userId parameters of the list route
UserIds == {"u1", "anonymous"}

\* Nothing asked yet: posts counts the POSTs, issued holds one entry per
\* 201 answer, dbThrew tells whether a database call has rejected.
NoAnswers ==
    [posts   |-> 0,
     issued  |-> <<>>,
     dbThrew |-> FALSE,
     last    |-> [op |-> "none", arg |-> "", status |-> 0, body |-> <<>>]]

--------------------------------------------------------------------------
(* The state machine *)

Ctx(r) == [st |-> upload[r], disk |-> disk, blobs |-> gridfsFiles, crashed |-> crashed]

\* Mutant: connectionCounts is declared at module level, one map for all requests.
Commit_SharedCounts(r, ctx) ==
    /\ upload' = [q \in Reqs |->
                    IF q = r THEN ctx.st
                    ELSE [upload[q] EXCEPT !.connectionCounts = ctx.st.connectionCounts]]
    /\ disk' = ctx.disk
    /\ gridfsFiles' = ctx.blobs
    /\ crashed' = ctx.crashed

Commit(r, ctx) ==
    /\ upload' = [upload EXCEPT ![r] = ctx.st]
    /\ disk' = ctx.disk
    /\ gridfsFiles' = ctx.blobs
    /\ crashed' = ctx.crashed

\* The server has started and the connection attempt is under way; one
\* request is about to arrive, the second request slot stays empty.
Init ==
    /\ mongo = "connecting"
    /\ isMongoConnected = FALSE
    /\ gfs = Null
    /\ Feedback = Null
    /\ Report = Null
    /\ gridfsFiles = {}
    /\ disk = {}
    /\ crashed = FALSE
    /\ reportStore = NoReports
    /\ reportLog = NoAnswers
    /\ \E req \in Requests :
        upload = [r \in Reqs |-> NewUpload(IF r = 1 THEN req ELSE NoRequest, r)]

\* mongoose.connect(...).then: setupMongoModels() sets the models, and gfs
\* unless the GridFSBucket constructor throws.
MongoConnected ==
    /\ ~crashed
    /\ mongo = "connecting"
    /\ mongo' = "connected"
    /\ isMongoConnected' = TRUE
    /\ Feedback' = "model"
    /\ Report' = "model"
    /\ \E bucketThrows \in BOOLEAN : gfs' = IF bucketThrows THEN Null ELSE "bucket"
    /\ UNCHANGED <<gridfsFiles, disk, upload, crashed, reportStore, reportLog>>

\* mongoose.connect(...).catch
MongoFailed ==
    /\ ~crashed
    /\ mongo = "connecting"
    /\ mongo' = "failed"
    /\ UNCHANGED <<isMongoConnected, gfs, Feedback, Report, gridfsFiles, disk, upload, crashed,
                   reportStore, reportLog>>

\* POST /api/upload: multer stores the file, then the handler runs.
Upload(r) ==
    /\ ~crashed
    /\ upload[r].req.arrives
    /\ upload[r].pc = "arriving"
    /\ \E storeThrows \in BOOLEAN, parseThrows \in BOOLEAN :
        LET written == IF upload[r].req.hasFile
                        THEN [Ctx(r) EXCEPT !.disk = @ \cup {FilePath(upload[r].req)}]
                        ELSE Ctx(r)
        IN  Commit(r, UploadHandler(written, isMongoConnected /\ gfs # Null,
                                    storeThrows, parseThrows))
    /\ UNCHANGED <<mongo, isMongoConnected, gfs, Feedback, Report, reportStore, reportLog>>

\* The capture reader delivers the next frame: the "packet" event.
ParserPacket(r) ==
    /\ ~crashed
    /\ upload[r].parser = "open"
    /\ upload[r].pos < Len(upload[r].req.capture)
    /\ LET read    == [Ctx(r) EXCEPT !.st.pos = @ + 1]
           handled == OnPacket(read, upload[r].req.capture[upload[r].pos + 1])
           pushed  == SubSeq(handled.st.packetDetails,
                             Len(upload[r].packetDetails) + 1,
                             Len(handled.st.packetDetails))
       IN  Commit(r, [handled EXCEPT !.st.produced = Append(@, pushed)])
    /\ UNCHANGED <<mongo, isMongoConnected, gfs, Feedback, Report, reportStore, reportLog>>

\* The "end" event: after the last frame, or right after an "error" event
\* (pcap-parser emits "error" and then "end" on a bad file header).
ParserEnd(r) ==
    /\ ~crashed
    /\ \/ upload[r].parser = "open" /\ upload[r].pos = Len(upload[r].req.capture)
       \/ upload[r].parser = "failing"
    /\ Commit(r, [OnEnd(Ctx(r)) EXCEPT !.st.parser = "ended"])
    /\ UNCHANGED <<mongo, isMongoConnected, gfs, Feedback, Report, reportStore, reportLog>>

\* The "error" event: the reader fails before any frame or after some;
\* endFollows: the reader emits "end" after it.
ParserError(r) ==
    /\ ~crashed
    /\ upload[r].parser = "open"
    /\ \E endFollows \in BOOLEAN :
        Commit(r, [OnError(Ctx(r)) EXCEPT
                    !.st.errored = TRUE,
                    !.st.parser = IF endFollows THEN "failing" ELSE "failed"])
    /\ UNCHANGED <<mongo, isMongoConnected, gfs, Feedback, Report, reportStore, reportLog>>

\* The timer set by the "end" handler fires.
TimerFires(r) ==
    /\ ~crashed
    /\ upload[r].timer = "pending"
    /\ Commit(r, DeferredDelete(Ctx(r), isMongoConnected /\ gfs # Null))
    /\ UNCHANGED <<mongo, isMongoConnected, gfs, Feedback, Report, reportStore, reportLog>>

Next ==
    \/ MongoConnected
    \/ MongoFailed
    \/ \E r \in Reqs : Upload(r)
    \/ \E r \in Reqs : ParserPacket(r)
    \/ \E r \in Reqs : ParserEnd(r)
    \/ \E r \in Reqs : ParserError(r)
    \/ \E r \in Reqs : TimerFires(r)

Spec == Init /\ [][Next]_vars

\* The report routes run when isMongoConnected && Report
ReportsConnected == isMongoConnected /\ Report # Null

\* The ids a client asks for: those it was given, and one nobody was given.
KnownIds ==
    {reportLog.issued[i].reportId : i \in 1..Len(reportLog.issued)}
        \cup {ReportObjectId(MaxSaves + 1)}

\* A POST /api/reports request; dt: the milliseconds since the request before.
ReportsPost ==
    /\ ~crashed
    /\ reportLog.posts < MaxSaves
    /\ \E body \in ReportBodies("data" \o ToString(reportLog.posts + 1)),
          saveThrows \in BOOLEAN, dt \in {0, 1} :
        LET at  == [reportStore EXCEPT !.now = @ + dt]
            out == SaveReport(at, body, ReportsConnected, saveThrows)
        IN  /\ reportStore' = out.store
            /\ reportLog' = [reportLog EXCEPT
                    !.posts   = @ + 1,
                    !.issued  = IF out.answer.status = 201
                                THEN Append(@, [reportId  |-> out.answer.body.reportId,
                                                userId    |-> UserOf(body.userId),
                                                data      |-> body.data,
                                                createdAt |-> at.now,
                                                deleted   |-> FALSE])
                                ELSE @,
                    !.dbThrew = @ \/ (/\ ReportsConnected
                                      /\ out.answer.status = 201
                                      /\ out.store = at),
                    !.last    = [op |-> "save", arg |-> "", status |-> out.answer.status,
                                 body |-> out.answer.body]]
    /\ UNCHANGED <<mongo, isMongoConnected, gfs, Feedback, Report, gridfsFiles, disk,
                   upload, crashed>>

\* A GET /api/reports/:userId request
ReportsList ==
    /\ ~crashed
    /\ \E userId \in UserIds, findThrows \in BOOLEAN :
        LET out == ListReports(reportStore, userId, ReportsConnected, findThrows)
        IN  /\ reportStore' = out.store
            /\ reportLog' = [reportLog EXCEPT
                    !.dbThrew = @ \/ (ReportsConnected /\ findThrows),
                    !.last    = [op |-> "list", arg |-> userId, status |-> out.answer.status,
                                 body |-> out.answer.body]]
    /\ UNCHANGED <<mongo, isMongoConnected, gfs, Feedback, Report, gridfsFiles, disk,
                   upload, crashed>>

\* A GET /api/reports/view/:reportId request
ReportsView ==
    /\ ~crashed
    /\ \E reportId \in KnownIds, findThrows \in BOOLEAN :
        LET out == ViewReport(reportStore, reportId, ReportsConnected, findThrows)
        IN  /\ reportStore' = out.store
            /\ reportLog' = [reportLog EXCEPT
                    !.dbThrew = @ \/ (ReportsConnected /\ findThrows),
                    !.last    = [op |-> "view", arg |-> reportId, status |-> out.answer.status,
                                 body |-> out.answer.body]]
    /\ UNCHANGED <<mongo, isMongoConnected, gfs, Feedback, Report, gridfsFiles, disk,
                   upload, crashed>>

\* A DELETE /api/reports/:reportId request
ReportsDelete ==
    /\ ~crashed
    /\ \E reportId \in KnownIds, deleteThrows \in BOOLEAN :
        LET out == DeleteReport(reportStore, reportId, ReportsConnected, deleteThrows)
        IN  /\ reportStore' = out.store
            /\ reportLog' = [reportLog EXCEPT
                    !.issued  = IF out.answer.status = 200
                                THEN [i \in 1..Len(@) |->
                                        IF @[i].reportId = reportId
                                            THEN [@[i] EXCEPT !.deleted = TRUE]
                                            ELSE @[i]]
                                ELSE @,
                    !.dbThrew = @ \/ (ReportsConnected /\ deleteThrows),
                    !.last    = [op |-> "delete", arg |-> reportId,
                                 status |-> out.answer.status, body |-> out.answer.body]]
    /\ UNCHANGED <<mongo, isMongoConnected, gfs, Feedback, Report, gridfsFiles, disk,
                   upload, crashed>>

\* Two uploads arrive, a millisecond apart, each with a capture of its own.
InitPair ==
    /\ mongo = "connecting"
    /\ isMongoConnected = FALSE
    /\ gfs = Null
    /\ Feedback = Null
    /\ Report = Null
    /\ gridfsFiles = {}
    /\ disk = {}
    /\ crashed = FALSE
    /\ reportStore = NoReports
    /\ reportLog = NoAnswers
    /\ \E c1 \in LongCaptures, c2 \in ShortCaptures :
        upload = [r \in Reqs |->
                    NewUpload(IF r = 1 THEN FileRequest(c1)
                              ELSE [FileRequest(c2) EXCEPT !.now = 2], r)]

SpecPair == InitPair /\ [][Next]_vars

\* The server with no upload under way and clients of the report routes.
InitReports ==
    /\ mongo = "connecting"
    /\ isMongoConnected = FALSE
    /\ gfs = Null
    /\ Feedback = Null
    /\ Report = Null
    /\ gridfsFiles = {}
    /\ disk = {}
    /\ crashed = FALSE
    /\ reportStore = NoReports
    /\ reportLog = NoAnswers
    /\ upload = [r \in Reqs |-> NewUpload(NoRequest, r)]

NextReports ==
    \/ MongoConnected
    \/ MongoFailed
    \/ ReportsPost
    \/ ReportsList
    \/ ReportsView
    \/ ReportsDelete

SpecReports == InitReports /\ [][NextReports]_vars

--------------------------------------------------------------------------
(* Properties *)

\* Responses of request r that carry an analysis result.
Results(r) == {i \in 1..Len(upload[r].sent) : upload[r].sent[i].status = 200}

\* The "end" handler of request r has run.
AtEndOfStream(r) == upload[r].parser = "ended"

\* How often x occurs in the sequence s.
Occurrences(s, x) == Cardinality({i \in 1..Len(s) : s[i] = x})

\* C1: totalPackets equals the number of frames the capture reader has
\* delivered so far, whatever they decode to, and packetDetails is never
\* longer than totalPackets; a returned result carries those values.
C1_TotalPacketsCountsFrames ==
    \A r \in Reqs :
        /\ upload[r].totalPackets = upload[r].pos
        /\ Len(upload[r].packetDetails) <= upload[r].totalPackets
        /\ \A i \in Results(r) :
            /\ upload[r].sent[i].body.totalPackets = upload[r].pos
            /\ Len(upload[r].sent[i].body.packetDetails) <= upload[r].pos

\* C1 witness: a result for three frames of which one decoded.
C1_Witness ==
    \E r \in Reqs :
        /\ Results(r) # {}
        /\ upload[r].pos = 3
        /\ upload[r].totalPackets = 3
        /\ Len(upload[r].packetDetails) = 1

\* The source/destination pairs of the decoded packets of request r.
Pairs(r) ==
    {<<upload[r].packetDetails[i].srcIP, upload[r].packetDetails[i].dstIP>> :
        i \in 1..Len(upload[r].packetDetails)}

\* The number of decoded packets of request r from src to dst.
PacketsOn(r, src, dst) ==
    Cardinality({i \in 1..Len(upload[r].packetDetails) :
                    /\ upload[r].packetDetails[i].srcIP = src
                    /\ upload[r].packetDetails[i].dstIP = dst})

DDoSFinding(src, dst, count) ==
    [type        |-> "Potential DDoS",
     description |-> "High traffic detected on connection " \o src \o "->" \o dst
                        \o " with " \o ToString(count) \o " packets."]

\* C2: at end of stream the threats hold a "Potential DDoS" finding for a
\* connection src->dst exactly when more than 100 decoded packets have that
\* source and destination; then exactly one, naming the connection and its
\* packet count; and no other "Potential DDoS" finding.
C2_DDoSIffOver100 ==
    \A r \in Reqs :
        AtEndOfStream(r) =>
            /\ \A p \in Pairs(r) :
                LET n == PacketsOn(r, p[1], p[2])
                IN  /\ Occurrences(upload[r].threats, DDoSFinding(p[1], p[2], n))
                            = IF n > 100 THEN 1 ELSE 0
                    /\ n <= 100 =>
                        \A m \in 0..Len(upload[r].packetDetails) :
                            Occurrences(upload[r].threats, DDoSFinding(p[1], p[2], m)) = 0
            /\ \A i \in 1..Len(upload[r].threats) :
                upload[r].threats[i].type = "Potential DDoS" =>
                    \E p \in Pairs(r) :
                        /\ PacketsOn(r, p[1], p[2]) > 100
                        /\ upload[r].threats[i]
                                = DDoSFinding(p[1], p[2], PacketsOn(r, p[1], p[2]))
            /\ \A i \in Results(r) : upload[r].sent[i].body.threats = upload[r].threats

\* C2 witness: 101 packets on 10.0.0.1->10.0.0.2 and the one finding for them.
C2_Witness ==
    \E r \in Reqs :
        /\ AtEndOfStream(r)
        /\ PacketsOn(r, "10.0.0.1", "10.0.0.2") = 101
        /\ upload[r].threats = <<DDoSFinding("10.0.0.1", "10.0.0.2", 101)>>
        /\ Results(r) # {}

\* The source addresses of the decoded packets of request r.
Sources(r) ==
    {upload[r].packetDetails[i].srcIP : i \in 1..Len(upload[r].packetDetails)}

\* The distinct destinations among the decoded packets of request r from src.
DestinationsOf(r, src) ==
    {upload[r].packetDetails[i].dstIP :
        i \in {j \in 1..Len(upload[r].packetDetails) : upload[r].packetDetails[j].srcIP = src}}

PortScanFinding(src, count) ==
    [type        |-> "Potential Port Scan",
     description |-> "Source IP " \o src \o " connected to " \o ToString(count)
                        \o " unique destinations."]

\* C3: at end of stream the threats hold a "Potential Port Scan" finding for
\* a source exactly when its decoded packets have more than 20 distinct
\* destinations; then exactly one, with the distinct count; no other
\* "Potential Port Scan" finding; and when no connection has more than 100
\* packets the threats hold nothing but the scan findings.
C3_PortScanIffOver20 ==
    \A r \in Reqs :
        AtEndOfStream(r) =>
            /\ \A src \in Sources(r) :
                LET n == Cardinality(DestinationsOf(r, src))
                IN  /\ Occurrences(upload[r].threats, PortScanFinding(src, n))
                            = IF n > 20 THEN 1 ELSE 0
                    /\ n <= 20 =>
                        \A m \in 0..Len(upload[r].packetDetails) :
                            Occurrences(upload[r].threats, PortScanFinding(src, m)) = 0
            /\ \A i \in 1..Len(upload[r].threats) :
                upload[r].threats[i].type = "Potential Port Scan" =>
                    \E src \in Sources(r) :
                        /\ Cardinality(DestinationsOf(r, src)) > 20
                        /\ upload[r].threats[i]
                                = PortScanFinding(src, Cardinality(DestinationsOf(r, src)))
            /\ (\A p \in Pairs(r) : PacketsOn(r, p[1], p[2]) <= 100) =>
                    \A i \in 1..Len(upload[r].threats) :
                        upload[r].threats[i].type = "Potential Port Scan"

\* C3 witness: one source, 25 destinations with one packet each, and the
\* scan finding alone.
C3_Witness ==
    \E r \in Reqs :
        /\ AtEndOfStream(r)
        /\ Len(upload[r].packetDetails) = 25
        /\ Cardinality(DestinationsOf(r, "10.0.0.1")) = 25
        /\ upload[r].threats = <<PortScanFinding("10.0.0.1", 25)>>
        /\ Results(r) # {}

\* C4 (the claim as stated): the threat detection runs at most once per
\* upload, and once when the stream has ended; each run comes after every
\* frame of the capture was delivered, not after an "error" event, and no
\* frame is delivered after it.
C4_ClassifiedOnceOnFullStream ==
    \A r \in Reqs :
        /\ Len(upload[r].classified) <= 1
        /\ AtEndOfStream(r) => Len(upload[r].classified) = 1
        /\ \A i \in 1..Len(upload[r].classified) :
            /\ ~upload[r].classified[i].afterError
            /\ upload[r].classified[i].pos = Len(upload[r].req.capture)
            /\ upload[r].classified[i].pos = upload[r].pos

\* C5: once the capture reader has reported a failure, the client has
\* exactly one response, the 500 of the "error" handler, and never an
\* analysis result, while the closure still holds the count of the frames
\* delivered before the failure.
C5_FailureGivesOneError ==
    \A r \in Reqs :
        upload[r].errored =>
            /\ upload[r].sent =
                <<[status |-> 500, body |-> [error |-> "Failed to parse PCAP file."]]>>
            /\ Results(r) = {}
            /\ upload[r].totalPackets = upload[r].pos

\* C5 witness: a failure after two frames, one of them decoded, answered 500.
C5_Witness ==
    \E r \in Reqs :
        /\ upload[r].errored
        /\ upload[r].pos = 2
        /\ upload[r].totalPackets = 2
        /\ Len(upload[r].packetDetails) = 1
        /\ Len(upload[r].sent) = 1
        /\ upload[r].sent[1].status = 500

\* The frames delivered so far to request r that carry the IPv4 ethertype,
\* in order: the frames that have an entry in packetDetails.
IPv4Delivered(r) ==
    SelectSeq(SubSeq(upload[r].req.capture, 1, upload[r].pos),
              LAMBDA f : Len(f.data) >= 14 /\ f.data[13] = 8 /\ f.data[14] = 0)

ProtocolNames ==
    {"TCP", "UDP", "ICMP"}
        \cup {"Unknown (" \o ToString(n) \o ")" : n \in (0..255) \ {1, 6, 17}}

\* C6 (the claim as stated): every packetDetails entry has protocol TCP, UDP,
\* ICMP or Unknown (N) with N a byte value other than 1, 6 and 17; the entry
\* of a frame with protocol byte 6 says TCP, 17 UDP, 1 ICMP, and any other
\* byte N says Unknown (N).
C6_ProtocolNamed ==
    \A r \in Reqs :
        \A i \in 1..Len(upload[r].packetDetails) :
            /\ upload[r].packetDetails[i].protocol \in ProtocolNames
            /\ LET byte == ByteAt(IPv4Delivered(r)[i].data, 23)
               IN  byte # Undefined =>
                    upload[r].packetDetails[i].protocol =
                        CASE byte = 6 -> "TCP"
                          [] byte = 17 -> "UDP"
                          [] byte = 1 -> "ICMP"
                          [] OTHER -> "Unknown (" \o ToString(byte) \o ")"

\* C7: delivering a frame of fewer than 14 bytes adds one to totalPackets,
\* leaves packetDetails and connectionCounts as they were, sends no
\* response, and leaves the parser open for the frames that follow.
C7_ShortFrameCountedAndSkipped ==
    [][\A r \in Reqs :
        (/\ upload'[r].pos = upload[r].pos + 1
         /\ Len(upload[r].req.capture[upload[r].pos + 1].data) < 14)
        =>
        (/\ upload'[r].totalPackets = upload[r].totalPackets + 1
         /\ upload'[r].packetDetails = upload[r].packetDetails
         /\ upload'[r].connectionCounts = upload[r].connectionCounts
         /\ upload'[r].sent = upload[r].sent
         /\ upload'[r].parser = "open"
         /\ ~crashed')]_vars

\* C7 witness: a frame of 13 bytes, then a decoded frame, then the result.
C7_Witness ==
    \E r \in Reqs :
        /\ upload[r].pos = 2
        /\ Len(upload[r].req.capture[1].data) = 13
        /\ upload[r].totalPackets = 2
        /\ Len(upload[r].packetDetails) = 1
        /\ Results(r) # {}

\* The dotted addresses of the frames of the captures.
RealAddresses ==
    {ToString(10) \o "." \o ToString(0) \o "." \o ToString(0) \o "." \o ToString(k) :
        k \in 0..255}

\* C8 (the claim as stated): packetDetails has one entry per delivered frame
\* that has the IPv4 ethertype and the 34 bytes the fixed offsets need, and
\* none for any other frame; the source and destination of every entry are
\* four octets.
C8_EntriesOnlyForFullIPv4 ==
    \A r \in Reqs :
        /\ Len(upload[r].packetDetails)
            = Len(SelectSeq(IPv4Delivered(r), LAMBDA f : Len(f.data) >= 34))
        /\ \A i \in 1..Len(upload[r].packetDetails) :
            /\ upload[r].packetDetails[i].srcIP \in RealAddresses
            /\ upload[r].packetDetails[i].dstIP \in RealAddresses

\* The packetDetails the capture alone determines.
DetailsOf(capture) ==
    LET ipv4 == SelectSeq(capture,
                          LAMBDA f : Len(f.data) >= 14 /\ f.data[13] = 8 /\ f.data[14] = 0)
    IN  [i \in 1..Len(ipv4) |->
            [srcIP      |-> IpString(ipv4[i].data, 26),
             dstIP      |-> IpString(ipv4[i].data, 30),
             protocol   |-> ProtoName(ByteAt(ipv4[i].data, 23)),
             packetSize |-> Len(ipv4[i].data)]]

ParseFailures ==
    {"Failed to parse PCAP file.", "An error occurred during file processing."}

Settled(r) ==
    \/ upload[r].pc = "returned"
    \/ upload[r].parser = "failed"
    \/ upload[r].parser = "ended" /\ upload[r].timer = "fired"

\* C10 (the claim as stated): once processing of an upload has finished and
\* no delete is pending, neither its blob nor its temp file is left; and the
\* deferred delete runs only after the result was assembled.
C10_StoredCopiesDeleted ==
    \A r \in Reqs :
        /\ Settled(r) =>
            /\ ObjectId(upload[r]) \notin gridfsFiles
            /\ FilePath(upload[r].req) \notin disk
        /\ upload[r].timer = "fired" => upload[r].classified # <<>>

\* C13: what the "packet" handler pushes for a frame depends on the frame
\* alone: whenever a frame has been delivered, it has pushed the same entry
\* (or none) as every earlier delivery of the same frame, at any position of
\* the stream; what an earlier delivery pushed is compared as recorded then.
C13_DecodingDeterministic ==
    \A r \in Reqs :
        /\ Len(upload[r].produced) = upload[r].pos
        /\ \A i \in 1..upload[r].pos :
            upload[r].req.capture[i] = upload[r].req.capture[upload[r].pos]
                => upload[r].produced[i] = upload[r].produced[upload[r].pos]

\* C13 witness: the same frame first and third, another frame between
\* them, and one equal entry for each of the two deliveries.
C13_Witness ==
    \E r \in Reqs :
        /\ upload[r].pos = 3
        /\ upload[r].req.capture[1] = upload[r].req.capture[3]
        /\ upload[r].req.capture[1] # upload[r].req.capture[2]
        /\ Len(upload[r].produced[1]) = 1
        /\ Len(upload[r].produced[2]) = 1
        /\ upload[r].produced[1] = upload[r].produced[3]
        /\ upload[r].produced[1] # upload[r].produced[2]

\* The count the map holds for key, 0 when the key is absent.
CountOf(connectionCounts, key) ==
    IF \E i \in 1..Len(connectionCounts) : connectionCounts[i].key = key
        THEN LET i == CHOOSE k \in 1..Len(connectionCounts) : connectionCounts[k].key = key
             IN  connectionCounts[i].count
        ELSE 0

KeysOf(connectionCounts) == {connectionCounts[i].key : i \in 1..Len(connectionCounts)}

\* C14: delivering a frame that is decoded to source s and destination d
\* adds exactly 1 to the count of the key s->d and changes no other key;
\* a frame that is not decoded changes no count; and no step of any kind
\* lowers a count or removes a key.
C14_OneIncrementPerDecodedFrame ==
    [][\A r \in Reqs :
        /\ upload'[r].pos = upload[r].pos + 1 =>
            IF Len(upload'[r].packetDetails) = Len(upload[r].packetDetails) + 1
            THEN LET e   == upload'[r].packetDetails[Len(upload'[r].packetDetails)]
                     key == e.srcIP \o "->" \o e.dstIP
                 IN  /\ CountOf(upload'[r].connectionCounts, key)
                            = CountOf(upload[r].connectionCounts, key) + 1
                     /\ \A k \in (KeysOf(upload[r].connectionCounts)
                                    \cup KeysOf(upload'[r].connectionCounts)) \ {key} :
                            CountOf(upload'[r].connectionCounts, k)
                                = CountOf(upload[r].connectionCounts, k)
            ELSE /\ upload'[r].packetDetails = upload[r].packetDetails
                 /\ upload'[r].connectionCounts = upload[r].connectionCounts
        /\ \A k \in KeysOf(upload[r].connectionCounts) :
            /\ k \in KeysOf(upload'[r].connectionCounts)
            /\ CountOf(upload'[r].connectionCounts, k)
                    >= CountOf(upload[r].connectionCounts, k)]_vars

\* C14 witness: two decoded frames of 10.0.0.1->10.0.0.2 and one frame that
\* was not decoded, and the count 2.
C14_Witness ==
    \E r \in Reqs :
        /\ upload[r].pos = 3
        /\ Len(upload[r].packetDetails) = 2
        /\ upload[r].connectionCounts = <<[key |-> "10.0.0.1->10.0.0.2", count |-> 2]>>

RECURSIVE SumOfCounts(_)
SumOfCounts(connectionCounts) ==
    IF connectionCounts = <<>> THEN 0
    ELSE connectionCounts[1].count + SumOfCounts(Tail(connectionCounts))

\* C15: every key of connectionCounts occurs once, has a count of at least
\* 1 that is the number of packetDetails entries with that source and
\* destination, and the counts add up to the length of packetDetails;
\* every threat names a key of connectionCounts with its count, or a source
\* that some key starts with.
C15_KeysBackedByPackets ==
    \A r \in Reqs :
        LET cc == upload[r].connectionCounts
        IN  /\ \A i, j \in 1..Len(cc) : cc[i].key = cc[j].key => i = j
            /\ \A i \in 1..Len(cc) :
                /\ cc[i].count >= 1
                /\ cc[i].count =
                    Cardinality({n \in 1..Len(upload[r].packetDetails) :
                        upload[r].packetDetails[n].srcIP \o "->"
                            \o upload[r].packetDetails[n].dstIP = cc[i].key})
            /\ SumOfCounts(cc) = Len(upload[r].packetDetails)
            /\ \A t \in 1..Len(upload[r].threats) :
                \/ \E i \in 1..Len(cc) :
                    upload[r].threats[t].description =
                        "High traffic detected on connection " \o cc[i].key
                            \o " with " \o ToString(cc[i].count) \o " packets."
                \/ \E p \in Pairs(r) :
                    /\ (p[1] \o "->" \o p[2]) \in KeysOf(cc)
                    /\ upload[r].threats[t] =
                        PortScanFinding(p[1], Cardinality(DestinationsOf(r, p[1])))

\* C15 witness: a flood and a sweep in one capture, two threats, 22 keys.
C15_Witness ==
    \E r \in Reqs :
        /\ AtEndOfStream(r)
        /\ Len(upload[r].threats) = 2
        /\ Len(upload[r].connectionCounts) = 22
        /\ upload[r].connectionCounts[1].count = 101

\* C16: packetDetails is always the entries of the decoded frames delivered
\* so far, in the order of delivery; no step, the "end" handler and the
\* timer included, changes or removes an entry already there.
C16_AppendOnlyInArrivalOrder ==
    /\ [](\A r \in Reqs :
            upload[r].packetDetails
                = DetailsOf(SubSeq(upload[r].req.capture, 1, upload[r].pos)))
    /\ [][\A r \in Reqs :
            /\ Len(upload'[r].packetDetails) >= Len(upload[r].packetDetails)
            /\ SubSeq(upload'[r].packetDetails, 1, Len(upload[r].packetDetails))
                    = upload[r].packetDetails]_vars

\* C16 witness: two different entries in the order of their frames, after
\* the "end" handler and the timer have run.
C16_Witness ==
    \E r \in Reqs :
        /\ AtEndOfStream(r)
        /\ upload[r].timer = "fired"
        /\ Len(upload[r].packetDetails) = 2
        /\ upload[r].packetDetails[1].protocol = "UDP"
        /\ upload[r].packetDetails[2].protocol = "TCP"
        /\ upload[r].sent[1].body.packetDetails = upload[r].packetDetails

\* C18 (the claim as stated): the handlers of one request call res.json at
\* most once, whatever the order of the parser's events.
C18_RespondsAtMostOnce ==
    \A r \in Reqs : upload[r].attempts <= 1

\* C17: the packets from a to b and the packets from b to a are counted
\* under two keys, a->b and b->a, each with the number of packets of its own
\* direction; at end of stream, when neither direction has more than 100
\* packets, no "Potential DDoS" finding names either of them, whatever the
\* two counts add up to.
C17_KeysAreDirectional ==
    \A r \in Reqs :
        \A p \in Pairs(r) :
            (p[1] # p[2] /\ <<p[2], p[1]>> \in Pairs(r)) =>
                LET forth == p[1] \o "->" \o p[2]
                    back  == p[2] \o "->" \o p[1]
                    cc    == upload[r].connectionCounts
                IN  /\ forth # back
                    /\ CountOf(cc, forth) = PacketsOn(r, p[1], p[2])
                    /\ CountOf(cc, back) = PacketsOn(r, p[2], p[1])
                    /\ (/\ AtEndOfStream(r)
                        /\ CountOf(cc, forth) <= 100
                        /\ CountOf(cc, back) <= 100) =>
                            \A i \in 1..Len(upload[r].threats) :
                                \A m \in 0..Len(upload[r].packetDetails) :
                                    /\ upload[r].threats[i] # DDoSFinding(p[1], p[2], m)
                                    /\ upload[r].threats[i] # DDoSFinding(p[2], p[1], m)

\* C17 witness: 100 packets each way between 10.0.0.1 and 10.0.0.2, 200
\* together, and a result without threats.
C17_Witness ==
    \E r \in Reqs :
        /\ AtEndOfStream(r)
        /\ PacketsOn(r, "10.0.0.1", "10.0.0.2") = 100
        /\ PacketsOn(r, "10.0.0.2", "10.0.0.1") = 100
        /\ upload[r].threats = <<>>
        /\ \E i \in Results(r) : upload[r].sent[i].body.threats = <<>>

\* The entries of issued that are saved and not deleted.
Kept == {i \in 1..Len(reportLog.issued) : ~reportLog.issued[i].deleted}

\* C11 (the claim as stated): a lookup of a reportId that a 201 answer gave
\* out, and that has not been deleted since, answers 200 with the report
\* saved under it.
C11_IssuedIdCanBeViewed ==
    reportLog.last.op = "view" =>
        \A i \in Kept :
            reportLog.issued[i].reportId = reportLog.last.arg =>
                /\ reportLog.last.status = 200
                /\ reportLog.last.body.data = reportLog.issued[i].data
                /\ reportLog.last.body.userId = reportLog.issued[i].userId

\* C12 (a part of the claim as stated): when no database call has rejected
\* and no two reports were given the same id, the list for a userId holds
\* exactly the saved and not deleted reports of that userId, newest first.
C12_ListIsSavedNotDeleted ==
    (/\ reportLog.last.op = "list"
     /\ ~reportLog.dbThrew
     /\ \A i, j \in 1..Len(reportLog.issued) :
            reportLog.issued[i].reportId = reportLog.issued[j].reportId => i = j) =>
        LET listed == reportLog.last.body
            mine   == {i \in Kept : reportLog.issued[i].userId = reportLog.last.arg}
        IN  /\ {listed[n]._id : n \in 1..Len(listed)}
                    = {reportLog.issued[i].reportId : i \in mine}
            /\ Len(listed) = Cardinality(mine)
            /\ \A n \in 1..Len(listed) : listed[n].userId = reportLog.last.arg
            /\ \A n, m \in 1..Len(listed) :
                    n < m => listed[n].createdAt >= listed[m].createdAt

\* The connection counts of a sequence of entries taken by itself: one
\* entry per source and destination, in the order of first appearance.
CountsOfDetails(details) ==
    LET keys    == [i \in 1..Len(details) |-> details[i].srcIP \o "->" \o details[i].dstIP]
        firsts  == {i \in 1..Len(details) : \A j \in 1..(i - 1) : keys[j] # keys[i]}
        indices == SelectSeq([i \in 1..Len(details) |-> i], LAMBDA i : i \in firsts)
    IN  [n \in 1..Len(indices) |->
            [key   |-> keys[indices[n]],
             count |-> Cardinality({j \in 1..Len(details) : keys[j] = keys[indices[n]]})]]

====
